---------------------------- MODULE Spec2Model ----------------------------
(***************************************************************************)
(* Model of src/DS/ids.c (openscap): decomposition of a source datastream  *)
(* collection into files (ds_ids_decompose and its helpers) and the        *)
(* composer's skeleton and single add.                                     *)
(*                                                                         *)
(* C strings are TLA+ strings (Len, \o and SubSeq act on them character by *)
(* character).  An XML node is a record; an attribute list is a sequence   *)
(* of <<name, value>> pairs, so a missing attribute (xmlGetProp returning  *)
(* NULL) is the absence of a pair.  A filesystem path is resolved to the   *)
(* sequence of its segments without "." and empty segments, the way the    *)
(* kernel resolves it relative to the working directory.                   *)
(***************************************************************************)
EXTENDS Integers, Sequences, FiniteSets, TLC

VARIABLES
    doc,          \* xmlReadFile's result: <<root>>, or <<>> if unreadable
    id,           \* ds_ids_decompose's id argument: <<>> (NULL) or <<string>>
    target_dir,   \* ds_ids_decompose's target_dir argument
    pc,           \* position of ds_ids_decompose
    datastream,   \* index of the selected data-stream among root's children
    cref_i,       \* position of the loop over checklists->children
    stack,        \* activation records of ds_ids_dump_component_ref_as
    dirs,         \* filesystem: the directories that exist
    files,        \* filesystem: the regular files, path |-> content
    calls,        \* the mkdir_p and xmlSaveFileEnc calls made, in order
    errs,         \* the oscap_seterr messages raised, in order
    cdoc          \* composer: the element holding the four containers

vars == <<doc, id, target_dir, pc, datastream, cref_i, stack, dirs, files,
          calls, errs, cdoc>>

decomposeVars == <<doc, id, target_dir, pc, datastream, cref_i, stack, dirs,
                   files, calls, errs>>

-----------------------------------------------------------------------------
(* Bounds and program constants *)

MAXPATHLEN == 1024

\* Deepest recursion of ds_ids_dump_component_ref_as the model follows.
MaxDepth == 4

\* Most component-refs the composer adds in one run.
MaxAdds == 2

-----------------------------------------------------------------------------
(* C strings and paths *)

\* p + 1 * sizeof(char): the string without its first character.
SkipFirst(s) == SubSeq(s, 2, Len(s))

SlashPos(s) == {i \in 1..Len(s) : SubSeq(s, i, i) = "/"}

\* The segments of s between its slashes, in order: s from position from
\* on, cut at the slashes at the positions in the set slashes.  (Here and
\* below, a value that is used more than once is bound as the element of a
\* singleton, so that it is worked out once.)
RECURSIVE SplitFrom(_, _, _)
SplitFrom(s, from, slashes) ==
    IF slashes = {} THEN <<SubSeq(s, from, Len(s))>>
    ELSE CHOOSE segs \in
             {<<SubSeq(s, from, j - 1)>> \o SplitFrom(s, j + 1, rest) :
                 j \in {CHOOSE m \in slashes : \A n \in slashes : m <= n},
                 rest \in {slashes \ {CHOOSE m \in slashes :
                                         \A n \in slashes : m <= n}}} : TRUE

Split(s) ==
    CHOOSE segs \in {SplitFrom(str, 1, slashes) :
                        str \in {s}, slashes \in {SlashPos(s)}} : TRUE

\* A path's segments without the empty ones and the "." ones.
DropDots(segs) == SelectSeq(segs, LAMBDA seg : seg \notin {".", ""})

\* The directory entry a relative path names.
Resolve(path) == DropDots(Split(path))

Parent(p) == SubSeq(p, 1, Len(p) - 1)

\* dirname(3) of a path that holds a slash and does not end in one.
dirname(path) ==
    CHOOSE dir \in
        {IF keep = {} THEN "/"
         ELSE SubSeq(path, 1, CHOOSE k \in keep : \A m \in keep : m <= k) :
            keep \in {UNION {{k \in 1..(last - 1) : SubSeq(path, k, k) # "/"} :
                        last \in {j \in SlashPos(path) :
                                    \A k \in SlashPos(path) : k <= j}}}} : TRUE

\* basename(3) of a non-empty path that does not end in a slash.
basename(path) ==
    CHOOSE base \in
        {IF slashes = {} THEN path
         ELSE SubSeq(path,
                     (CHOOSE j \in slashes : \A k \in slashes : k <= j) + 1,
                     Len(path)) :
            slashes \in {SlashPos(path)}} : TRUE

strendswith(str, suffix) ==
    LET str_shift == Len(str) - Len(suffix)
    IN  IF str_shift < 0 THEN FALSE
        ELSE SubSeq(str, str_shift + 1, Len(str)) = suffix

-----------------------------------------------------------------------------
(* The document tree (libxml2's xmlNode) *)

Elem(name, attrs, children) ==
    [type |-> "element", name |-> name, attrs |-> attrs, children |-> children]

\* A node that is not XML_ELEMENT_NODE (whitespace between elements).
TextNode == [type |-> "text", name |-> "text", attrs |-> <<>>, children |-> <<>>]

\* xmlGetProp(node, name) != NULL
HasProp(node, name) == \E k \in 1..Len(node.attrs) : node.attrs[k][1] = name

\* xmlGetProp(node, name), when it is not NULL
GetProp(node, name) ==
    node.attrs[CHOOSE k \in 1..Len(node.attrs) :
                  /\ node.attrs[k][1] = name
                  /\ \A j \in 1..(k - 1) : node.attrs[j][1] # name][2]

\* The least index in S (S non-empty).
Min(S) == CHOOSE m \in S : \A n \in S : m <= n

\* Mutant: the comparison of the child's name with name is left out.
node_get_child_index_AnyName(parent, name) ==
    LET hits == {k \in 1..Len(parent.children) :
                    parent.children[k].type = "element"}
    IN  IF hits = {} THEN 0 ELSE Min(hits)

\* Index of the child node_get_child_element returns, 0 for NULL;
\* name = <<>> stands for a NULL name (any element).
node_get_child_index(parent, name) ==
    LET hits == {k \in 1..Len(parent.children) :
                    /\ parent.children[k].type = "element"
                    /\ (name = <<>> \/ parent.children[k].name = name[1])}
    IN  IF hits = {} THEN 0 ELSE Min(hits)

HasChildElement(parent, name) == node_get_child_index(parent, name) # 0

node_get_child_element(parent, name) ==
    parent.children[node_get_child_index(parent, name)]

\* The elements named name among node's children, in document order.
ElementsNamed(children, name) ==
    SelectSeq(children, LAMBDA child : child.type = "element" /\ child.name = name)

\* The order in which ds_ids_find_component_ref visits component-refs:
\* every element child of the datastream, then its component-ref children.
RECURSIVE AllComponentRefs(_)
AllComponentRefs(parents) ==
    IF parents = <<>> THEN <<>>
    ELSE CHOOSE refs \in
             {(IF parent.type = "element"
                 THEN ElementsNamed(parent.children, "component-ref")
                 ELSE <<>>) \o AllComponentRefs(rest) :
                 parent \in {Head(parents)}, rest \in {Tail(parents)}} : TRUE

\* A scan that strcmp()s the id attribute of each candidate with wanted and
\* returns the first equal one.  A candidate without id makes the call
\* strcmp(NULL, wanted), which is undefined: the process is killed, or the
\* comparison reads as unequal and the scan goes on.  The outcomes:
\* [kind |-> "found", node |-> n], [kind |-> "none"], [kind |-> "crash"].
ScanOutcomes(cands, wanted) ==
    UNION {LET stop  == IF hits = {} THEN Len(c) ELSE Min(hits)
               undef == \E k \in 1..stop : ~HasProp(c[k], "id")
               res   == IF hits = {} THEN [kind |-> "none"]
                        ELSE [kind |-> "found", node |-> c[Min(hits)]]
           IN  {res} \cup (IF undef THEN {[kind |-> "crash"]} ELSE {}) :
              c \in {cands},
              hits \in {{k \in 1..Len(cands) :
                           /\ HasProp(cands[k], "id")
                           /\ GetProp(cands[k], "id") = wanted}}}

ds_ids_find_component_ref(ds, cref_id) ==
    ScanOutcomes(AllComponentRefs(ds.children), cref_id)

\* The component lookup at the head of ds_ids_dump_component.
FindComponent(root, component_id) ==
    ScanOutcomes(ElementsNamed(root.children, "component"), component_id)

-----------------------------------------------------------------------------
(* The filesystem *)

NoFiles == [p \in {} |-> TextNode]

\* The files after p is created, or truncated, and given content.
WriteFile(fs_files, p, content) == (p :> content) @@ fs_files

\* mkdir(2): the directories after mkdir(path, S_IRWXU); it fails, changing
\* nothing, when the entry exists or its parent is not a directory.
mkdir(fs_dirs, fs_files, path) ==
    CHOOSE after \in
        {IF p # <<>> /\ p \notin fs_dirs /\ p \notin DOMAIN fs_files
            /\ Parent(p) \in fs_dirs
           THEN fs_dirs \cup {p}
           ELSE fs_dirs : p \in {Resolve(path)}} : TRUE

\* xmlSaveFileEnc(filename, ...) can create or truncate the file.
CanSave(fs_dirs, filename) ==
    \E p \in {Resolve(filename)} :
        p # <<>> /\ p \notin fs_dirs /\ Parent(p) \in fs_dirs

PathTooLong(path) == Len(path) > MAXPATHLEN

\* The loop of mkdir_p: mkdir of every prefix of path that ends before a
\* '/' or at the end of the string, shortest first.  ends: the prefix
\* lengths still to do.
RECURSIVE MkdirPrefixes(_, _, _, _)
MkdirPrefixes(fs_dirs, fs_files, path, ends) ==
    IF ends = {} THEN fs_dirs
    ELSE CHOOSE after \in
             {MkdirPrefixes(made, fs_files, path, rest) :
                 made \in {mkdir(fs_dirs, fs_files, SubSeq(path, 1, Min(ends)))},
                 rest \in {ends \ {Min(ends)}}} : TRUE

\* mkdir_p(path): [rc, dirs].
mkdir_p(fs_dirs, fs_files, path) ==
    IF PathTooLong(path)
      THEN [rc |-> 1, dirs |-> fs_dirs]
      ELSE CHOOSE res \in
               {[rc |-> 0, dirs |-> MkdirPrefixes(fs_dirs, fs_files, path, ends)] :
                   ends \in {{j - 1 : j \in SlashPos(path)} \cup {Len(path)}}} : TRUE

-----------------------------------------------------------------------------
(* Decomposition *)

Root == doc[1]

Pop(stk) == SubSeq(stk, 1, Len(stk) - 1)

Top(stk) == stk[Len(stk)]

\* Mutant: a candidate without id is taken for a match.
SelectDatastream_NullIdMatches(root, wanted) ==
    LET hits == {k \in 1..Len(root.children) :
                    /\ root.children[k].type = "element"
                    /\ root.children[k].name = "data-stream"
                    /\ \/ wanted = <<>>
                       \/ ~HasProp(root.children[k], "id")
                       \/ GetProp(root.children[k], "id") = wanted[1]}
    IN  IF hits = {} THEN 0 ELSE Min(hits)

\* The search loop of ds_ids_decompose: the index, among root's children,
\* of the first data-stream the loop stops at; 0 when it finds none.
SelectDatastream(root, wanted) ==
    LET hits == {k \in 1..Len(root.children) :
                    /\ root.children[k].type = "element"
                    /\ root.children[k].name = "data-stream"
                    /\ \/ wanted = <<>>
                       \/ /\ HasProp(root.children[k], "id")
                          /\ GetProp(root.children[k], "id") = wanted[1]}
    IN  IF hits = {} THEN 0 ELSE Min(hits)

Datastream == Root.children[datastream]

Checklists == node_get_child_element(Datastream, <<"checklists">>)

\* strcmp(target_dir, "") == 0 ? "." : target_dir
EffectiveTargetDir(dir) == IF dir = "" THEN "." ELSE dir

\* Mutant: the length of the href is not tested.
DumpRefHrefOk_AnyLength(component_ref) == HasProp(component_ref, "href")

\* The test on xlink_href in ds_ids_dump_component_ref.
DumpRefHrefOk(component_ref) ==
    HasProp(component_ref, "href") /\ ~(Len(GetProp(component_ref, "href")) < 2)

\* Mutant: a missing id is reported nowhere and the dump goes on.
CrefIdOk_Always(component_ref) == TRUE

\* The test on cref_id in ds_ids_dump_component_ref_as.
CrefIdOk(component_ref) == HasProp(component_ref, "id")

\* Mutant: the length of the href is not tested.
DumpRefAsHrefOk_AnyLength(component_ref) == HasProp(component_ref, "href")

\* The test on xlink_href in ds_ids_dump_component_ref_as.
DumpRefAsHrefOk(component_ref) ==
    HasProp(component_ref, "href") /\ ~(Len(GetProp(component_ref, "href")) < 2)

file_reldir(filename) == dirname("./" \o filename)

\* Mutant: the directory of the file is taken to be the target directory.
target_filename_dirname_Flat(dir, filename) == dir

target_filename_dirname(dir, filename) == dir \o "/" \o file_reldir(filename)

\* Mutant: the file is put directly under the target directory.
target_filename_Flat(dir, filename) == dir \o "/" \o basename(filename)

target_filename(dir, filename) ==
    dir \o "/" \o file_reldir(filename) \o "/" \o basename(filename)

\* The activation record ds_ids_dump_component_ref_as starts with.
Frame(component_ref, dir, filename) ==
    [component_ref |-> component_ref, target_dir |-> dir, filename |-> filename,
     at |-> "entry", uri |-> 0, target_filename_dirname |-> ""]

\* ds_ids_dump_component(component_id, doc, filename) on the filesystem
\* (fs_dirs, fs_files): the outcomes [kind, files, calls, errs], calls and
\* errs being what the call adds.
ds_ids_dump_component(component_id, root, filename, fs_dirs, fs_files) ==
    { IF c.kind = "crash"
        THEN [kind |-> "crash", files |-> fs_files, calls |-> <<>>, errs |-> <<>>]
      ELSE IF c.kind = "none"
        THEN [kind |-> "ok", files |-> fs_files, calls |-> <<>>,
              errs |-> <<"Component of given id was not found in the document.">>]
      ELSE IF ~HasChildElement(c.node, <<>>)
        THEN [kind |-> "ok", files |-> fs_files, calls |-> <<>>,
              errs |-> <<"Found component but it has no element contents, nothing to dump, skipping...">>]
      ELSE LET inner_root == node_get_child_element(c.node, <<>>)
           IN  [kind |-> "ok",
                files |-> IF ok THEN WriteFile(fs_files, Resolve(name), inner_root)
                          ELSE fs_files,
                calls |-> <<[op |-> "save", path |-> name,
                             content |-> inner_root, ok |-> ok]>>,
                errs |-> <<>>]
      : c \in FindComponent(root, component_id),
        name \in {filename},
        ok \in {CanSave(fs_dirs, filename)} }

\* ds_ids_decompose up to its loop: parse, select the datastream, require
\* its checklists.
Decompose ==
    /\ pc = "start"
    /\ UNCHANGED <<doc, id, target_dir, stack, dirs, files, calls, cdoc>>
    /\ IF doc = <<>>
         THEN /\ pc' = "fatal"
              /\ errs' = Append(errs, "Could not read/parse XML of given input file.")
              /\ UNCHANGED <<datastream, cref_i>>
       ELSE IF SelectDatastream(Root, id) = 0
         THEN /\ pc' = "fatal"
              /\ errs' = Append(errs, "Could not find any datastream")
              /\ UNCHANGED <<datastream, cref_i>>
       ELSE /\ datastream' = SelectDatastream(Root, id)
            /\ IF ~HasChildElement(Root.children[datastream'], <<"checklists">>)
                 THEN /\ pc' = "fatal"
                      /\ errs' = Append(errs,
                            "No checklists element found in the matching datastream.")
                      /\ UNCHANGED cref_i
                 ELSE /\ pc' = "loop"
                      /\ cref_i' = 1
                      /\ UNCHANGED errs

\* One iteration of the loop over checklists->children, with the body of
\* ds_ids_dump_component_ref up to its call of ds_ids_dump_component_ref_as.
DumpComponentRef ==
    /\ pc = "loop"
    /\ stack = <<>>
    /\ cref_i <= Len(Checklists.children)
    /\ cref_i' = cref_i + 1
    /\ UNCHANGED <<doc, id, target_dir, pc, datastream, dirs, files, calls, cdoc>>
    /\ LET component_ref == Checklists.children[cref_i]
       IN  IF component_ref.type # "element" \/ component_ref.name # "component-ref"
             THEN UNCHANGED <<stack, errs>>
           ELSE IF ~DumpRefHrefOk(component_ref)
             THEN /\ errs' = Append(errs,
                        "No or invalid xlink:href attribute on given component-ref.")
                  /\ UNCHANGED stack
           ELSE /\ stack' = <<Frame(component_ref, EffectiveTargetDir(target_dir),
                                    SkipFirst(GetProp(component_ref, "href")))>>
                /\ UNCHANGED errs

\* The end of the loop: xmlFreeDoc and return.
Finish ==
    /\ pc = "loop"
    /\ stack = <<>>
    /\ cref_i > Len(Checklists.children)
    /\ pc' = "done"
    /\ UNCHANGED <<doc, id, target_dir, datastream, cref_i, stack, dirs, files,
                   calls, errs, cdoc>>

\* ds_ids_dump_component_ref_as, for the activation record f, from its
\* entry to its catalog loop: the two attribute tests, mkdir_p,
\* ds_ids_dump_component, the catalog lookup.  The outcomes: the filesystem
\* afterwards, the calls and errors added, whether the process died, and
\* the record to go on with (<<>>: the function has returned).
ds_ids_dump_component_ref_as(f, fs_dirs, fs_files) ==
    IF ~CrefIdOk(f.component_ref)
      THEN {[dirs |-> fs_dirs, files |-> fs_files, calls |-> <<>>,
             errs |-> <<"No or invalid id attribute on given component-ref.">>,
             crash |-> FALSE, frame |-> <<>>]}
    ELSE IF ~DumpRefAsHrefOk(f.component_ref)
      THEN {[dirs |-> fs_dirs, files |-> fs_files, calls |-> <<>>,
             errs |-> <<"No or invalid xlink:href attribute on given component-ref.">>,
             crash |-> FALSE, frame |-> <<>>]}
    ELSE UNION {UNION {
             {[dirs |-> made.dirs,
               files |-> o.files,
               calls |-> <<[op |-> "mkdir_p", path |-> tfd, rc |-> made.rc]>> \o o.calls,
               errs |-> o.errs,
               crash |-> o.kind = "crash",
               frame |-> IF o.kind # "crash"
                            /\ HasChildElement(f.component_ref, <<"catalog">>)
                           THEN <<[f EXCEPT !.at = "catalog", !.uri = 1,
                                            !.target_filename_dirname = tfd]>>
                           ELSE <<>>]
              : o \in ds_ids_dump_component(component_id, Root, tf,
                                            made.dirs, fs_files)}
             : made \in {mkdir_p(fs_dirs, fs_files, tfd)}}
             : component_id \in {SkipFirst(GetProp(f.component_ref, "href"))},
               tfd \in {target_filename_dirname(f.target_dir, f.filename)},
               tf \in {target_filename(f.target_dir, f.filename)}}

\* The call of ds_ids_dump_component_ref_as on top of the stack runs to its
\* catalog loop, or returns.
DumpComponentRefAs ==
    /\ pc = "loop"
    /\ stack # <<>>
    /\ Top(stack).at = "entry"
    /\ UNCHANGED <<doc, id, target_dir, datastream, cref_i, cdoc>>
    /\ \E o \in ds_ids_dump_component_ref_as(Top(stack), dirs, files) :
          /\ dirs' = o.dirs
          /\ files' = o.files
          /\ calls' = calls \o o.calls
          /\ errs' = errs \o o.errs
          /\ pc' = IF o.crash THEN "crashed" ELSE "loop"
          /\ stack' = IF o.crash THEN stack ELSE Pop(stack) \o o.frame

\* One iteration of the loop over catalog->children.
CatalogUri ==
    /\ pc = "loop"
    /\ stack # <<>>
    /\ Top(stack).at = "catalog"
    /\ LET f == Top(stack)
           catalog == node_get_child_element(f.component_ref, <<"catalog">>)
           advanced == Append(Pop(stack), [f EXCEPT !.uri = f.uri + 1])
       IN  /\ f.uri <= Len(catalog.children)
           /\ UNCHANGED <<doc, id, target_dir, datastream, cref_i, dirs, files,
                          calls, cdoc>>
           /\ LET uri == catalog.children[f.uri]
              IN  IF uri.type # "element" \/ uri.name # "uri"
                    THEN /\ stack' = advanced
                         /\ UNCHANGED <<pc, errs>>
                  ELSE IF ~HasProp(uri, "name")
                    THEN /\ stack' = advanced
                         /\ errs' = Append(errs,
                               "No or invalid name for a component referenced in the catalog. Skipping...")
                         /\ UNCHANGED pc
                  ELSE IF ~HasProp(uri, "uri") \/ Len(GetProp(uri, "uri")) < 2
                    THEN /\ stack' = advanced
                         /\ errs' = Append(errs,
                               "No or invalid URI for a component referenced in the catalog. Skipping...")
                         /\ UNCHANGED pc
                  ELSE \E r \in ds_ids_find_component_ref(Datastream,
                                    SkipFirst(GetProp(uri, "uri"))) :
                         IF r.kind = "crash"
                           THEN /\ pc' = "crashed"
                                /\ UNCHANGED <<stack, errs>>
                         ELSE IF r.kind = "none"
                           THEN /\ stack' = advanced
                                /\ errs' = Append(errs,
                                      "component-ref with given id wasn't found in the document!")
                                /\ UNCHANGED pc
                         ELSE /\ Len(stack) < MaxDepth
                              /\ stack' = Append(advanced,
                                    Frame(r.node, f.target_filename_dirname,
                                          GetProp(uri, "name")))
                              /\ UNCHANGED <<pc, errs>>

\* The end of the catalog loop: ds_ids_dump_component_ref_as returns.
Return ==
    /\ pc = "loop"
    /\ stack # <<>>
    /\ Top(stack).at = "catalog"
    /\ Top(stack).uri >
         Len(node_get_child_element(Top(stack).component_ref, <<"catalog">>).children)
    /\ stack' = Pop(stack)
    /\ UNCHANGED <<doc, id, target_dir, pc, datastream, cref_i, dirs, files,
                   calls, errs, cdoc>>

-----------------------------------------------------------------------------
(* Composition *)

\* The document ds_ids_compose_from_xccdf builds before its add: the root
\* with the four containers, in the order they are attached.
Skeleton ==
    Elem("data-stream-collection", <<>>,
         <<Elem("dictionaries", <<>>, <<>>),
           Elem("checklists", <<>>, <<>>),
           Elem("checks", <<>>, <<>>),
           Elem("extended-components", <<>>, <<>>)>>)

\* The if/else-if chain choosing cref_parent's name.
ContainerFor(filepath) ==
    IF strendswith(filepath, "-xccdf.xml") THEN "checklists"
    ELSE IF strendswith(filepath, "-oval.xml") THEN "checks"
    ELSE IF strendswith(filepath, "-cpe-oval.xml")
            \/ strendswith(filepath, "-cpe-dictionary.xml") THEN "dictionaries"
    ELSE "extended-components"

\* The component-ref element built at the head of the add.
NewComponentRef(filepath, cref_id) ==
    Elem("component-ref",
         <<<<"id", cref_id>>, <<"href", "#" \o filepath>>>>,
         <<Elem("catalog", <<>>, <<>>)>>)

\* Mutant: the child is put ahead of its siblings (xmlAddPrevSibling on the
\* first child) instead of after them.
AddChildTo_Prepend(parent, name, child) ==
    LET k == node_get_child_index(parent, <<name>>)
    IN  IF k = 0 THEN parent
        ELSE [parent EXCEPT !.children[k].children = <<child>> \o @]

\* xmlAddChild(node_get_child_element(parent, name), child): parent with
\* child appended to its first element child called name; unchanged when
\* there is none (xmlAddChild(NULL, ...) adds nothing).
AddChildTo(parent, name, child) ==
    LET k == node_get_child_index(parent, <<name>>)
    IN  IF k = 0 THEN parent
        ELSE [parent EXCEPT !.children[k].children = Append(@, child)]

\* ds_ids_compose_add_component_with_ref: the datastream afterwards.
ds_ids_compose_add_component_with_ref(ds, filepath, cref_id) ==
    AddChildTo(ds, ContainerFor(filepath), NewComponentRef(filepath, cref_id))

\* The component-refs under all containers of node.
RefCount(node) == Len(AllComponentRefs(node.children))

FilePaths ==
    {"foo-xccdf.xml", "bar-oval.xml", "bar-cpe-oval.xml", "bar-cpe-dictionary.xml",
     "bar.xml", "-xccdf.xml", "l", "xccdf.xml", "foo-xccdf.xml.bak", "dir/sub-oval.xml"}

CrefIds == {"ref_a", "ref_b"}

\* ds_ids_compose_from_xccdf after building the skeleton: its one add, of
\* xccdf_file under the id xccdf_file.  (The source spells the callee
\* ds_ids_add_component_with_ref and passes it no datastream; it is read as
\* the add defined above it, on the element that holds the containers.)
ComposeFromXccdf ==
    /\ pc = "compose"
    /\ cdoc = Skeleton
    /\ \E xccdf_file \in FilePaths :
          cdoc' = ds_ids_compose_add_component_with_ref(cdoc, xccdf_file, xccdf_file)
    /\ UNCHANGED decomposeVars

\* A call of ds_ids_compose_add_component_with_ref by a client.
AddComponentWithRef ==
    /\ pc = "compose"
    /\ RefCount(cdoc) < MaxAdds
    /\ \E filepath \in FilePaths, cref_id \in CrefIds :
          cdoc' = ds_ids_compose_add_component_with_ref(cdoc, filepath, cref_id)
    /\ UNCHANGED decomposeVars

-----------------------------------------------------------------------------
(* Input documents *)

IdAttr(x) == IF x = <<>> THEN <<>> ELSE <<<<"id", x[1]>>>>

HrefAttr(x) == IF x = <<>> THEN <<>> ELSE <<<<"href", x[1]>>>>

\* A component-ref; cat is <<>> (no catalog) or <<children of the catalog>>.
Ref(rid, href, cat) ==
    Elem("component-ref", IdAttr(rid) \o HrefAttr(href),
         IF cat = <<>> THEN <<>> ELSE <<TextNode, Elem("catalog", <<>>, cat[1])>>)

Uri(name, uri) ==
    Elem("uri",
         (IF name = <<>> THEN <<>> ELSE <<<<"name", name[1]>>>>)
           \o (IF uri = <<>> THEN <<>> ELSE <<<<"uri", uri[1]>>>>),
         <<>>)

Payload(tag) == Elem(tag, <<<<"id", tag>>>>, <<>>)

Component(cid, kids) == Elem("component", IdAttr(cid), kids)

CompA == Component(<<"a.xml">>, <<TextNode, Payload("Benchmark")>>)
CompB == Component(<<"d/b.xml">>, <<Payload("oval_definitions")>>)
CompC == Component(<<"c.xml">>, <<Payload("cpe-list"), Payload("ignored")>>)
\* A component with no element child.
CompE == Component(<<"e.xml">>, <<TextNode>>)
\* A component with no id attribute.
CompNoId == Component(<<>>, <<Payload("anonymous")>>)

Collection(kids) == Elem("data-stream-collection", <<>>, kids)

Scenario(root, wanted, dir) == [doc |-> <<root>>, id |-> wanted, target_dir |-> dir]

\* --- datastream selection: up to three datastreams, each with its own
\* component, with or without an id and a checklists container.
SelHref(k) == IF k = 1 THEN "#a.xml" ELSE IF k = 2 THEN "#d/b.xml" ELSE "#c.xml"

SelDatastream(k, dsid, withChecklists) ==
    LET r == Ref(<<"r1">>, <<SelHref(k)>>, <<>>)
    IN  Elem("data-stream", IdAttr(dsid),
             IF withChecklists
               THEN <<TextNode, Elem("checks", <<>>, <<>>),
                      Elem("checklists", <<>>, <<TextNode, r>>)>>
               ELSE <<Elem("checks", <<>>, <<r>>)>>)

SelSlot(k) ==
    {<<>>} \cup {<<SelDatastream(k, i, c)>> :
                    i \in {<<>>, <<"ds1">>, <<"ds2">>}, c \in BOOLEAN}

SelSlot3 ==
    {<<>>, <<SelDatastream(3, <<>>, TRUE)>>, <<SelDatastream(3, <<"ds2">>, TRUE)>>}

SelectionScenarios ==
    {Scenario(Collection(<<TextNode>> \o s1 \o <<CompA>> \o s2 \o s3
                           \o <<CompB, CompC>>),
              wanted, "out/x") :
        s1 \in SelSlot(1), s2 \in SelSlot(2), s3 \in SelSlot3,
        wanted \in {<<>>, <<"ds1">>, <<"ds2">>, <<"ds3">>}}

\* --- the walk: one datastream, checklists <<r1, r2>> and checks <<r3>>.
Cat1 ==
    {<<>>,
     <<<<Uri(<<"n.xml">>, <<"#r2">>)>>>>,
     <<<<TextNode, Uri(<<"s/m.xml">>, <<"#r3">>)>>>>,
     <<<<Uri(<<>>, <<"#r3">>), Uri(<<"n.xml">>, <<>>), Uri(<<"n.xml">>, <<"#">>),
         Uri(<<"n.xml">>, <<"#r9">>), Elem("other", <<>>, <<>>),
         Uri(<<"b.xml">>, <<"#r3">>)>>>>,
     <<<<Uri(<<"n.xml">>, <<"#r1">>)>>>>,
     <<<<Uri(<<"n.xml">>, <<"#r3">>), Uri(<<"s/m.xml">>, <<"#r2">>)>>>>,
     <<<<Uri(<<"d">>, <<"#r3">>)>>>>}

R1Set ==
    {Ref(<<"r1">>, h, c) : h \in {<<"#a.xml">>, <<"#d/b.xml">>, <<"#">>, <<>>},
                           c \in Cat1}
      \cup {Ref(<<>>, <<"#a.xml">>, c) :
               c \in {<<>>, <<<<Uri(<<"n.xml">>, <<"#r3">>)>>>>}}

R2Set ==
    {Ref(<<"r2">>, h, c) :
        h \in {<<"#d/b.xml">>, <<"#a.xml">>, <<"#">>, <<"#zz.xml">>},
        c \in {<<>>, <<<<Uri(<<"d/b.xml">>, <<"#r3">>)>>>>,
               <<<<Uri(<<"n.xml">>, <<"#r1">>)>>>>}}

R3Set ==
    {Ref(<<"r3">>, h, c) :
        h \in {<<"#a.xml">>, <<"#e.xml">>, <<>>},
        c \in {<<>>, <<<<Uri(<<"t/u.xml">>, <<"#r1">>)>>>>,
               <<<<Uri(<<"n.xml">>, <<"#r3">>)>>>>}}

WalkDoc(r1, r2, r3, comps) ==
    Collection(<<Elem("data-stream", <<<<"id", "ds1">>>>,
                      <<Elem("checklists", <<>>, <<r1, TextNode, r2>>),
                        TextNode,
                        Elem("checks", <<>>, <<r3>>)>>)>> \o comps)

\* The components; the one without payload only where r3 names it.
WalkComponents(r3) ==
    IF HasProp(r3, "href") /\ GetProp(r3, "href") = "#e.xml"
      THEN <<CompA, CompE, TextNode, CompB>>
      ELSE <<CompA, TextNode, CompB>>

WalkScenarios ==
    {Scenario(WalkDoc(r1, r2, r3, WalkComponents(r3)), <<"ds1">>, "out") :
        r1 \in R1Set, r2 \in R2Set, r3 \in R3Set}

\* --- other arguments and documents: an unreadable input, an empty
\* target_dir, a component without id ahead of the others.
OtherScenarios ==
    {[doc |-> <<>>, id |-> <<>>, target_dir |-> "out"]}
      \cup {Scenario(WalkDoc(r1, Ref(<<"r2">>, <<"#d/b.xml">>, <<>>),
                             Ref(<<"r3">>, <<"#a.xml">>, <<>>), comps),
                     <<>>, "") :
               r1 \in R1Set,
               comps \in {<<CompA, CompB>>, <<CompA, CompNoId, CompB>>}}

\* --- long target directories, around MAXPATHLEN.
RECURSIVE Rep(_, _)
Rep(c, n) ==
    IF n = 0 THEN ""
    ELSE LET h == Rep(c, n \div 2)
         IN  IF n % 2 = 0 THEN h \o h ELSE h \o h \o c

\* A relative path of n characters, n > 1004, in segments of at most 250.
LongDir(n) ==
    LET s == Rep("t", 250)
    IN  s \o "/" \o s \o "/" \o s \o "/" \o s \o "/" \o Rep("t", n - 1004)

LongScenarios ==
    {Scenario(WalkDoc(r1, r2, Ref(<<"r3">>, <<"#a.xml">>, <<>>), <<CompA, CompB>>),
              <<>>, LongDir(n)) :
        r1 \in {Ref(<<"r1">>, <<"#d/b.xml">>, <<<<Uri(<<"n.xml">>, <<"#r3">>)>>>>),
                Ref(<<"r1">>, <<"#a.xml">>, <<<<Uri(<<"s/m.xml">>, <<"#r3">>)>>>>)},
        r2 \in {Ref(<<"r2">>, <<"#a.xml">>, <<>>), Ref(<<"r2">>, <<"#d/b.xml">>, <<>>)},
        n \in {1018, 1019, 1021, 1022, 1023}}

Scenarios == SelectionScenarios \cup WalkScenarios \cup OtherScenarios \cup LongScenarios

-----------------------------------------------------------------------------
(* Specifications *)

\* The state when ds_ids_decompose is entered with one of the inputs S.
Entered(S) ==
    /\ \E sc \in S :
          /\ doc = sc.doc
          /\ id = sc.id
          /\ target_dir = sc.target_dir
    /\ pc = "start"
    /\ datastream = 0
    /\ cref_i = 0
    /\ stack = <<>>
    /\ dirs = {<<>>}
    /\ files = NoFiles
    /\ calls = <<>>
    /\ errs = <<>>
    /\ cdoc = Skeleton

Init == Entered(Scenarios)

Next ==
    \/ Decompose
    \/ DumpComponentRef
    \/ DumpComponentRefAs
    \/ CatalogUri
    \/ Return
    \/ Finish

Spec == Init /\ [][Next]_vars

\* The call runs to completion once started: it is one thread of control.
LiveSpec == Spec /\ WF_vars(Next)

ComposeInit ==
    /\ doc = <<>>
    /\ id = <<>>
    /\ target_dir = ""
    /\ pc = "compose"
    /\ datastream = 0
    /\ cref_i = 0
    /\ stack = <<>>
    /\ dirs = {<<>>}
    /\ files = NoFiles
    /\ calls = <<>>
    /\ errs = <<>>
    /\ cdoc = Skeleton

ComposeNext == ComposeFromXccdf \/ AddComponentWithRef

ComposeSpec == ComposeInit /\ [][ComposeNext]_vars

-----------------------------------------------------------------------------
(* Properties: datastream selection and the checklists requirement *)

DataStreamIndexes ==
    {k \in 1..Len(Root.children) :
        Root.children[k].type = "element" /\ Root.children[k].name = "data-stream"}

MatchingIndexes ==
    IF id = <<>> THEN DataStreamIndexes
    ELSE {k \in DataStreamIndexes :
             \E a \in 1..Len(Root.children[k].attrs) :
                Root.children[k].attrs[a] = <<"id", id[1]>>}

NothingWritten == files = NoFiles /\ dirs = {<<>>} /\ calls = <<>>

\* C1: with no id the first data-stream child of the root is selected, with
\* an id the first data-stream whose id attribute equals it (one without id
\* never matches); when none matches the call is fatal and writes nothing.
C1_DatastreamSelection ==
    (pc # "start" /\ doc # <<>>) =>
        IF MatchingIndexes = {}
          THEN pc = "fatal" /\ NothingWritten
          ELSE /\ datastream \in MatchingIndexes
               /\ \A k \in MatchingIndexes : datastream <= k
               /\ id = <<>> => \A k \in DataStreamIndexes : datastream <= k

\* An id was given, an earlier data-stream without that id was passed over,
\* and the selected one was dumped.
C1_Witness ==
    /\ pc = "done"
    /\ id = <<"ds2">>
    /\ \E k \in DataStreamIndexes : k < datastream
    /\ DOMAIN files # {}

\* C6: a selected datastream without a checklists child makes the call
\* fatal: no file, no directory, whatever its other containers hold.
C6_MissingChecklistsFatal ==
    (/\ pc # "start"
     /\ doc # <<>>
     /\ datastream # 0
     /\ \A k \in 1..Len(Datastream.children) :
           ~(Datastream.children[k].type = "element"
             /\ Datastream.children[k].name = "checklists"))
      => /\ pc = "fatal"
         /\ NothingWritten
         /\ errs = <<"No checklists element found in the matching datastream.">>

\* The fatal return was taken on a datastream whose checks container holds
\* a component-ref.
C6_Witness ==
    /\ pc = "fatal"
    /\ datastream # 0
    /\ AllComponentRefs(Datastream.children) # <<>>

-----------------------------------------------------------------------------
(* Properties: the attribute tests on a component-ref *)

BadHref(component_ref) ==
    \A a \in 1..Len(component_ref.attrs) :
        component_ref.attrs[a][1] = "href" => Len(component_ref.attrs[a][2]) <= 1

NoId(component_ref) ==
    \A a \in 1..Len(component_ref.attrs) : component_ref.attrs[a][1] # "id"

IsComponentRef(node) == node.type = "element" /\ node.name = "component-ref"

HrefMessage == "No or invalid xlink:href attribute on given component-ref."

IdMessage == "No or invalid id attribute on given component-ref."

FilesystemUnchanged == dirs' = dirs /\ files' = files /\ calls' = calls

\* The loop over the checklists is at a component-ref with a bad href.
AtBadChecklistRef ==
    /\ pc = "loop"
    /\ stack = <<>>
    /\ cref_i <= Len(Checklists.children)
    /\ IsComponentRef(Checklists.children[cref_i])
    /\ BadHref(Checklists.children[cref_i])

\* A component-ref reached through a catalog is about to be dumped.
AtEntry == pc = "loop" /\ stack # <<>> /\ Top(stack).at = "entry"

\* C7: a component-ref whose href is missing or a lone '#' raises the href
\* error and leaves no file or directory; the loop it was met in goes on
\* with the next sibling: the checklists loop moves to the next child, the
\* catalog loop of the caller resumes where it had already advanced to, and
\* a call that returns has gone through every checklists child.
C7_BadHrefSkipped ==
    /\ [][ /\ AtBadChecklistRef =>
                /\ FilesystemUnchanged
                /\ errs' = Append(errs, HrefMessage)
                /\ stack' = <<>>
                /\ cref_i' = cref_i + 1
                /\ pc' = "loop"
           /\ (AtEntry /\ BadHref(Top(stack).component_ref)) =>
                /\ FilesystemUnchanged
                /\ errs' = Append(errs, HrefMessage)
                /\ stack' = SubSeq(stack, 1, Len(stack) - 1)
                /\ cref_i' = cref_i
                /\ pc' = "loop" ]_vars
    /\ [](pc = "done" => cref_i = Len(Checklists.children) + 1)

\* The first checklist ref had a bad href, raised the error and left
\* nothing; the ref after it was dumped to its file.
C7_Witness ==
    /\ pc = "done"
    /\ BadHref(ElementsNamed(Checklists.children, "component-ref")[1])
    /\ errs # <<>> /\ errs[1] = HrefMessage
    /\ calls # <<>> /\ calls[1].path = "out/./d"
    /\ <<"out", "d", "b.xml">> \in DOMAIN files

\* C8 as stated: a component-ref with a valid href and no id raises the id
\* error and is dumped all the same (its directory made, its component
\* written).
C8_DumpProceedsWithoutId ==
    [][ (AtEntry /\ NoId(Top(stack).component_ref)
           /\ ~BadHref(Top(stack).component_ref)) =>
          /\ errs' = Append(errs, IdMessage)
          /\ Len(calls') > Len(calls) ]_vars

\* C8, amended: a component-ref without id raises the id error and is
\* skipped: ds_ids_dump_component_ref_as returns at once, nothing is made
\* or written for it and its catalog is not walked.
C8_NoIdSkipped ==
    [][ (AtEntry /\ NoId(Top(stack).component_ref)) =>
          /\ errs' = Append(errs, IdMessage)
          /\ FilesystemUnchanged
          /\ stack' = SubSeq(stack, 1, Len(stack) - 1)
          /\ cref_i' = cref_i
          /\ pc' = "loop" ]_vars

\* A checklist ref with href "#a.xml", a catalog and no id was skipped with
\* the id error; a.xml was never written and the next ref was dumped.
C8_Witness ==
    /\ pc = "done"
    /\ errs # <<>> /\ errs[1] = IdMessage
    /\ LET first == ElementsNamed(Checklists.children, "component-ref")[1]
       IN  NoId(first) /\ ~BadHref(first) /\ Len(first.children) > 0
    /\ DOMAIN files = {<<"out", "d", "b.xml">>}

-----------------------------------------------------------------------------
(* Properties: where and what the files are *)

\* The directory part and the whole of a relative name, as path segments.
Segments(name) == DropDots(Split(name))

DirSegments(name) == SubSeq(Segments(name), 1, Len(Segments(name)) - 1)

\* The catalog entry whose resolution made the call of frame k + 1: the
\* caller's loop has already moved past it.
CallingEntry(k) ==
    LET kids == stack[k].component_ref.children
        cat  == kids[CHOOSE c \in 1..Len(kids) :
                        kids[c].type = "element" /\ kids[c].name = "catalog"]
    IN  cat.children[stack[k].uri - 1]

\* C3: a component-ref dumped through a catalog entry named N of a ref
\* whose own file went to dir1/base1 under its target directory has its
\* directory made and its file written at that target directory joined
\* with dir1 and N; as every level is rooted in the same way at the
\* directory of its parent's file, this composes over catalog chains.
C3_CatalogNesting ==
    [][ (AtEntry /\ Len(stack) >= 2 /\ Len(calls') > Len(calls)) =>
          LET parent == stack[Len(stack) - 1]
              N      == Top(stack).filename
              base   == Segments(parent.target_dir) \o DirSegments(parent.filename)
          IN  /\ \E a \in 1..Len(CallingEntry(Len(stack) - 1).attrs) :
                    CallingEntry(Len(stack) - 1).attrs[a] = <<"name", N>>
              /\ Segments(Top(stack).target_dir) = base
              /\ \A n \in (Len(calls) + 1)..Len(calls') :
                    Segments(calls'[n].path) =
                        IF calls'[n].op = "save" THEN base \o Segments(N)
                        ELSE base \o DirSegments(N) ]_vars

\* Two levels of catalog under a ref dumped to d/b.xml: the entry n.xml
\* went to out/d/n.xml and its own entry d/b.xml to out/d/d/b.xml.
C3_Witness ==
    /\ <<"out", "d", "b.xml">> \in DOMAIN files
    /\ <<"out", "d", "n.xml">> \in DOMAIN files
    /\ <<"out", "d", "d", "b.xml">> \in DOMAIN files

Components == ElementsNamed(Root.children, "component")

ComponentRefs == AllComponentRefs(Datastream.children)

ChecklistRefs == ElementsNamed(Checklists.children, "component-ref")

ElementChildren(node) ==
    {k \in 1..Len(node.children) : node.children[k].type = "element"}

Attr(node, name) ==
    node.attrs[CHOOSE a \in 1..Len(node.attrs) : node.attrs[a][1] = name][2]

HasAttr(node, name) == \E a \in 1..Len(node.attrs) : node.attrs[a][1] = name

WithoutHash(s) == SubSeq(s, 2, Len(s))

\* The data model's invariants on the selected datastream and the
\* components: ids present and unique, one payload per component, every
\* href naming a component, every catalog entry naming a component-ref.
WellFormed ==
    /\ \A k \in 1..Len(Components) :
          /\ HasAttr(Components[k], "id")
          /\ Cardinality(ElementChildren(Components[k])) = 1
          /\ \A j \in 1..Len(Components) :
                HasAttr(Components[j], "id")
                  /\ Attr(Components[j], "id") = Attr(Components[k], "id") => j = k
    /\ \A k \in 1..Len(ComponentRefs) :
          LET r == ComponentRefs[k]
          IN  /\ HasAttr(r, "id") /\ HasAttr(r, "href")
              /\ \A j \in 1..Len(ComponentRefs) :
                    HasAttr(ComponentRefs[j], "id")
                      /\ Attr(ComponentRefs[j], "id") = Attr(r, "id") => j = k
              /\ Len(Attr(r, "href")) >= 2
              /\ \E c \in 1..Len(Components) :
                    /\ HasAttr(Components[c], "id")
                    /\ Attr(Components[c], "id") = WithoutHash(Attr(r, "href"))
              /\ \A c \in ElementChildren(r) :
                    /\ r.children[c].name = "catalog"
                    /\ \A u \in ElementChildren(r.children[c]) :
                          LET e == r.children[c].children[u]
                          IN  /\ e.name = "uri"
                              /\ HasAttr(e, "name") /\ HasAttr(e, "uri")
                              /\ Len(Attr(e, "uri")) >= 2
                              /\ \E j \in 1..Len(ComponentRefs) :
                                    /\ HasAttr(ComponentRefs[j], "id")
                                    /\ Attr(ComponentRefs[j], "id")
                                         = WithoutHash(Attr(e, "uri"))

\* The payload of the component a ref's href names.
PayloadOf(r) ==
    LET c == Components[CHOOSE k \in 1..Len(Components) :
                            Attr(Components[k], "id") = WithoutHash(Attr(r, "href"))]
    IN  c.children[CHOOSE k \in ElementChildren(c) : TRUE]

\* Every directory path the call handed to mkdir_p was within MAXPATHLEN.
PathsFit == \A n \in 1..Len(calls) : calls[n].op = "mkdir_p" => calls[n].rc = 0

EveryChecklistRefHasItsFile ==
    \A k \in 1..Len(ChecklistRefs) :
        LET r == ChecklistRefs[k]
            p == Segments(target_dir) \o Segments(WithoutHash(Attr(r, "href")))
        IN  p \in DOMAIN files /\ files[p] = PayloadOf(r)

NoClash ==
    \A n \in 1..Len(calls) :
        calls[n].op = "save" =>
            /\ calls[n].ok
            /\ \A m \in 1..Len(calls) :
                  (calls[m].op = "save"
                     /\ Segments(calls[m].path) = Segments(calls[n].path))
                    => calls[m].content = calls[n].content

-----------------------------------------------------------------------------
(* Properties: a directory path longer than MAXPATHLEN *)

\* C9: when the directory path of a ref is longer than MAXPATHLEN, mkdir_p
\* fails and the failure is fatal for the call: the call ends there, no
\* file is written for that ref and nothing is made or written after it.
C9_PathTooLongFatal ==
    \A n \in 1..Len(calls) :
        (calls[n].op = "mkdir_p" /\ Len(calls[n].path) > 1024) =>
            /\ calls[n].rc = 1
            /\ Len(calls) = n
            /\ pc = "fatal"

-----------------------------------------------------------------------------
(* Properties: termination and the catalog graph *)

HasWalk ==
    /\ doc # <<>>
    /\ SelectDatastream(Root, id) # 0
    /\ HasChildElement(Root.children[SelectDatastream(Root, id)], <<"checklists">>)

GraphDatastream == Root.children[SelectDatastream(Root, id)]

GraphRoots ==
    ElementsNamed(node_get_child_element(GraphDatastream, <<"checklists">>).children,
                  "component-ref")

\* The component-ref a catalog uri names: the first one, in the order of
\* the lookup, whose id is the uri less its '#'.
ResolveUri(uri) ==
    LET cands == AllComponentRefs(GraphDatastream.children)
        hits  == {k \in 1..Len(cands) :
                     HasAttr(cands[k], "id") /\ Attr(cands[k], "id") = WithoutHash(uri)}
    IN  IF hits = {} THEN <<>> ELSE <<cands[Min(hits)]>>

\* The uri entries of a ref's catalog, in order.
CatalogEntries(r) ==
    IF \E c \in ElementChildren(r) : r.children[c].name = "catalog"
      THEN ElementsNamed(
             r.children[CHOOSE c \in ElementChildren(r) :
                           /\ r.children[c].name = "catalog"
                           /\ \A b \in ElementChildren(r) :
                                 r.children[b].name = "catalog" => c <= b].children,
             "uri")
      ELSE <<>>

ValidEntry(e) == HasAttr(e, "name") /\ HasAttr(e, "uri") /\ Len(Attr(e, "uri")) >= 2

\* A ref that passes the id and href tests, so that it is dumped and its
\* catalog is walked.
Dumpable(r) == HasAttr(r, "id") /\ HasAttr(r, "href") /\ Len(Attr(r, "href")) >= 2

\* The edges of the catalog graph out of r.  stated: as the claim states
\* them, out of every ref; otherwise out of the dumpable refs only.
Successors(r, stated) ==
    IF stated \/ Dumpable(r)
      THEN {ResolveUri(Attr(CatalogEntries(r)[k], "uri"))[1] :
               k \in {j \in 1..Len(CatalogEntries(r)) :
                        /\ ValidEntry(CatalogEntries(r)[j])
                        /\ ResolveUri(Attr(CatalogEntries(r)[j], "uri")) # <<>>}}
      ELSE {}

RECURSIVE Reach(_, _)
Reach(S, stated) ==
    LET T == S \cup UNION {Successors(r, stated) : r \in S}
    IN  IF T = S THEN S ELSE Reach(T, stated)

Cyclic(stated) ==
    /\ HasWalk
    /\ \E r \in Reach({GraphRoots[k] : k \in 1..Len(GraphRoots)}, stated) :
          r \in Reach(Successors(r, stated), stated)

\* The dumps an acyclic walk makes from r: r itself, when dumpable, and
\* those from the target of each valid entry of its catalog, one per entry.
RECURSIVE Dumps(_), DumpsOfEntries(_, _)
Dumps(r) == IF Dumpable(r) THEN 1 + DumpsOfEntries(CatalogEntries(r), 1) ELSE 0

DumpsOfEntries(entries, k) ==
    IF k > Len(entries) THEN 0
    ELSE (IF ValidEntry(entries[k]) /\ ResolveUri(Attr(entries[k], "uri")) # <<>>
            THEN Dumps(ResolveUri(Attr(entries[k], "uri"))[1])
            ELSE 0)
         + DumpsOfEntries(entries, k + 1)

RECURSIVE DumpsOfRoots(_)
DumpsOfRoots(k) ==
    IF k > Len(GraphRoots) THEN 0 ELSE Dumps(GraphRoots[k]) + DumpsOfRoots(k + 1)

\* The dumps made so far: each makes exactly one call of mkdir_p.
DumpsMade == Cardinality({n \in 1..Len(calls) : calls[n].op = "mkdir_p"})

Returned == pc \in {"done", "fatal"}

\* The call is over: it returned, or the process died in an undefined
\* strcmp on a missing id attribute.
Ended == Returned \/ pc = "crashed"

C10_WitnessCycle == Cyclic(FALSE) /\ Len(stack) = MaxDepth

-----------------------------------------------------------------------------
(* Properties: composition *)

ContainerNames == <<"dictionaries", "checklists", "checks", "extended-components">>

\* The container the classification table gives for a filepath.
TableContainer(filepath) ==
    IF strendswith(filepath, "-xccdf.xml") THEN "checklists"
    ELSE IF strendswith(filepath, "-cpe-oval.xml")
            \/ strendswith(filepath, "-cpe-dictionary.xml") THEN "dictionaries"
    ELSE IF strendswith(filepath, "-oval.xml") THEN "checks"
    ELSE "extended-components"

\* C4: every component-ref of the composed document lies in the container
\* the table gives for its filepath: checklists for -xccdf.xml, checks for
\* -oval.xml, dictionaries for -cpe-oval.xml and -cpe-dictionary.xml (so
\* for bar-cpe-oval.xml), extended-components for every other filepath.
C4_SuffixTable ==
    \A k \in 1..Len(cdoc.children) :
        \A j \in 1..Len(cdoc.children[k].children) :
            cdoc.children[k].name
              = TableContainer(WithoutHash(Attr(cdoc.children[k].children[j], "href")))

\* The component-ref an add of filepath under ref_id is to build.
StatedRef(filepath, ref_id) ==
    [type |-> "element", name |-> "component-ref",
     attrs |-> <<<<"id", ref_id>>, <<"href", "#" \o filepath>>>>,
     children |-> <<[type |-> "element", name |-> "catalog",
                     attrs |-> <<>>, children |-> <<>>]>>]

ContainersInOrder(node) ==
    /\ Len(node.children) = Len(ContainerNames)
    /\ \A k \in 1..Len(ContainerNames) :
          /\ node.children[k].type = "element"
          /\ node.children[k].name = ContainerNames[k]

AllEmpty(node) == \A k \in 1..Len(node.children) : node.children[k].children = <<>>

\* C5: the composed document keeps its four containers in the order
\* dictionaries, checklists, checks, extended-components, all empty at the
\* start; every add appends one component-ref, with its id, its href
\* '#' + filepath and an empty catalog, as the last child of one container
\* and leaves the other three as they were; the add of foo-xccdf.xml to
\* the empty skeleton leaves that ref as the only child of checklists.
C5_SingleAdd ==
    /\ ComposeInit => ContainersInOrder(cdoc) /\ AllEmpty(cdoc)
    /\ [][/\ ContainersInOrder(cdoc')
           /\ \E k \in 1..Len(ContainerNames) :
                \E filepath \in FilePaths, ref_id \in CrefIds \cup FilePaths :
                   /\ cdoc'.children[k].children
                        = Append(cdoc.children[k].children,
                                 StatedRef(filepath, ref_id))
                   /\ \A j \in 1..Len(ContainerNames) \ {k} :
                         cdoc'.children[j] = cdoc.children[j]
                   /\ (filepath = "foo-xccdf.xml" /\ AllEmpty(cdoc))
                         => ContainerNames[k] = "checklists"]_vars

\* foo-xccdf.xml has been composed, and a second file added after it.
C5_Witness ==
    /\ pc = "compose"
    /\ Len(cdoc.children[2].children) = 2
    /\ cdoc.children[2].children[1] = StatedRef("foo-xccdf.xml", "foo-xccdf.xml")
    /\ cdoc.children[2].children[2] = StatedRef("-xccdf.xml", "ref_b")
    /\ \A k \in {1, 3, 4} : cdoc.children[k].children = <<>>

=============================================================================
